---- MODULE Spec2Model ----
(***************************************************************************)
(* Model of app.py, the Streamlit image annotation tool.                   *)
(*                                                                         *)
(*   SpecExport    one call of save_annotation: the geometry helpers and   *)
(*                 the COCO record it builds and writes, on inputs drawn   *)
(*                 from bounded sets.                                      *)
(*   SpecCanvas    the drawing canvas (the <script> of canvas_html): its   *)
(*                 four mouse listeners on the page one script run         *)
(*                 rendered. The canvas never reports back to the script.  *)
(*   SpecNavigate  the Streamlit session from its first run: the widgets   *)
(*                 that choose the dataset, the image, the class and the   *)
(*                 mode, and that clear the set of the image shown.        *)
(*   SpecSave      the session once a dataset is chosen: the text area and *)
(*                 the save button, with the navigation between images.    *)
(*                                                                         *)
(* In the session an action is one widget interaction: the whole script    *)
(* run it triggers, and the rerun st.rerun() asks for. reset_counter only  *)
(* feeds an HTML comment (line 298) and is left out.                       *)
(***************************************************************************)
EXTENDS Integers, Sequences, FiniteSets, TLC

VARIABLES
    \* st.session_state (init_state, lines 26-39) and the widgets' state
    selected_dataset, current_index, selected_class, annotations_dict,
    annotation_json, last_export_path, uploaded,
    \* what the last script run showed: "none", "success", "error" (st.success /
    \* st.error of the save handler) or "exception" (an uncaught exception)
    message,
    \* the disk: the image folders, and the files under annotations/
    image_files, annotation_files,
    \* the page's canvas: the script's constants and variables, the event handled
    mode, annotations, rects, polys, curPoly, start, isDrag, event,
    \* one call of save_annotation: its arguments, what the disk does during it,
    \* its progress ("call", "returned", "raised") and the record it built
    img_path, data, fault, pc, coco_format

session_vars == <<selected_dataset, current_index, selected_class, annotations_dict,
                  annotation_json, last_export_path, uploaded, message>>
disk_vars == <<image_files, annotation_files>>
canvas_vars == <<mode, annotations, rects, polys, curPoly, start, isDrag, event>>
call_vars == <<img_path, data, fault, pc, coco_format>>
vars == <<session_vars, disk_vars, canvas_vars, call_vars>>

----------------------------------------------------------------------------
(* Bounds of the inputs.                                                   *)

\* rectangles and polygons per list, in the sets that vary the lists' lengths
MaxShapes == 2
\* raw rectangles have x, y in 0..MaxCoord and w, h in -MaxCoord..MaxCoord
MaxCoord == 2
\* vertices per polygon, in the sets that vary the polygon
MaxVertices == 4
\* points the canvas takes into the polygon in progress
MaxClicks == 3
\* polygons the canvas commits on top of those the page was loaded with
MaxCommitted == 1

----------------------------------------------------------------------------
(* Values.                                                                 *)

None == "None"

Abs(n) == IF n < 0 THEN -n ELSE n

\* Python's n / 2 for an integer n, exactly: <<whole part, number of halves>>
Half(n) == <<n \div 2, n % 2>>

SetMin(S) == CHOOSE m \in S : \A k \in S : m <= k
SetMax(S) == CHOOSE m \in S : \A k \in S : m >= k

SeqsUpTo(S, n) == UNION {[1..k -> S] : k \in 0..n}

EmptySet == [rects |-> <<>>, polys |-> <<>>]

UPLOAD_DIR == "images"
ANNOTATION_DIR == "annotations"
DATASET_DIRS == <<"xview_sample", "opensarship_sample", "mstar_sample">>
DEFAULT_IMG == [dir |-> ".", stem |-> "default", suffix |-> ".jpg"]

class_options == <<"Unlabeled", "Car", "Truck", "Building", "Tank", "Tree">>

----------------------------------------------------------------------------
(* The helpers, lines 46-72.                                               *)

\* list.index is 0-based; TLA+ sequences are 1-based
get_class_id(name) ==
    ((CHOOSE i \in 1..Len(class_options) : class_options[i] = name) - 1) + 1

get_annotation_path(path) ==
    <<ANNOTATION_DIR, selected_dataset, selected_class, path.stem>>

RECURSIVE ShoelaceSum(_, _)
\* the loop of polygon_area from 1-based index i on: area += x1 * y2 - y1 * x2
ShoelaceSum(points, i) ==
    IF i > Len(points) THEN 0
    ELSE LET p1 == points[i]
             p2 == points[(i % Len(points)) + 1]
         IN  (p1[1] * p2[2] - p1[2] * p2[1]) + ShoelaceSum(points, i + 1)

polygon_area_signed(points) == Half(ShoelaceSum(points, 1))

polygon_area(points) == Half(Abs(ShoelaceSum(points, 1)))

polygon_bbox(points) ==
    LET xs == {points[i][1] : i \in 1..Len(points)}
        ys == {points[i][2] : i \in 1..Len(points)}
    IN  <<SetMin(xs), SetMin(ys), SetMax(xs) - SetMin(xs), SetMax(ys) - SetMin(ys)>>

----------------------------------------------------------------------------
(* save_annotation, lines 74-120.                                          *)

rect_bbox_unadjusted(r) == <<r[1], r[2], Abs(r[3]), Abs(r[4])>>

\* lines 89-96: a negative width or height is made positive and x, y moved
rect_bbox(r) ==
    LET x == IF r[3] < 0 THEN r[1] + r[3] ELSE r[1]
        y == IF r[4] < 0 THEN r[2] + r[4] ELSE r[2]
    IN  <<x, y, Abs(r[3]), Abs(r[4])>>

rect_annotation(r, ann_id) ==
    LET b == rect_bbox(r)
    IN  [id |-> ann_id, image_id |-> 1,
         category_id |-> get_class_id(selected_class),
         bbox |-> b, segmentation |-> <<>>,
         area |-> b[3] * b[4], iscrowd |-> 0]

RECURSIVE Flatten(_)
\* [coord for pt in p for coord in pt]
Flatten(p) == IF p = <<>> THEN <<>> ELSE Head(p) \o Flatten(Tail(p))

poly_annotation(p, ann_id) ==
    [id |-> ann_id, image_id |-> 1,
     category_id |-> get_class_id(selected_class),
     bbox |-> polygon_bbox(p), segmentation |-> <<Flatten(p)>>,
     area |-> polygon_area(p), iscrowd |-> 0]

RECURSIVE rect_loop(_, _)
rect_loop(rs, ann_id) ==
    IF rs = <<>> THEN <<>>
    ELSE <<rect_annotation(Head(rs), ann_id)>> \o rect_loop(Tail(rs), ann_id + 1)

RECURSIVE poly_loop(_, _)
poly_loop(ps, ann_id) ==
    IF ps = <<>> THEN <<>>
    ELSE <<poly_annotation(Head(ps), ann_id)>> \o poly_loop(Tail(ps), ann_id + 1)

coco_annotations_restarted(d) == rect_loop(d.rects, 1) \o poly_loop(d.polys, 1)

\* ann_id = 1, then the rectangles' loop, then the polygons' loop
coco_annotations(d) ==
    rect_loop(d.rects, 1) \o poly_loop(d.polys, 1 + Len(d.rects))

\* where the two loops raise: x, y, w, h = r; x1, y1 = points[i]; min([])
Raises(d) ==
    \/ \E i \in 1..Len(d.rects) : Len(d.rects[i]) # 4
    \/ \E j \in 1..Len(d.polys) :
          \/ d.polys[j] = <<>>
          \/ \E k \in 1..Len(d.polys[j]) : Len(d.polys[j][k]) # 2

NoRecord == [images |-> <<>>, annotations |-> <<>>, categories |-> <<>>]

build_coco(path, d) ==
    [images |-> <<[id |-> 1, file_name |-> <<path.stem, path.suffix>>,
                   width |-> 800, height |-> 533]>>,
     annotations |-> coco_annotations(d),
     categories |-> <<[id |-> get_class_id(selected_class),
                       name |-> selected_class, supercategory |-> "none"]>>]

\* what open(json_path, "w") leaves when the write after it fails
Truncated == [complete |-> FALSE, coco |-> NoRecord]

WriteFile(files, path, content) ==
    [p \in (DOMAIN files) \cup {path} |-> IF p = path THEN content ELSE files[p]]

IOOutcomes == {"ok", "mkdir_fails", "open_fails", "write_fails"}

\* The call's outcome: whether it raised, the files under annotations/ and
\* last_export_path after it. io is what the disk does to lines 53 and 118-119.
save_annotation(path, d, io) ==
    LET json_path == get_annotation_path(path)
        unchanged == [raised |-> TRUE, files |-> annotation_files,
                      last |-> last_export_path]
    IN  IF Raises(d) \/ selected_dataset = None THEN unchanged
        ELSE IF io \in {"mkdir_fails", "open_fails"} THEN unchanged
        ELSE IF io = "write_fails"
             THEN [raised |-> TRUE,
                   files |-> WriteFile(annotation_files, json_path, Truncated),
                   last |-> last_export_path]
        ELSE [raised |-> FALSE,
              files |-> WriteFile(annotation_files, json_path,
                                  [complete |-> TRUE, coco |-> build_coco(path, d)]),
              last |-> json_path]

----------------------------------------------------------------------------
(* Initial values of the three groups of variables.                        *)

NoFiles == [p \in {} |-> Truncated]
NoDict == [k \in {} |-> EmptySet]
NoEvent == [type |-> "none", offsetX |-> 0, offsetY |-> 0]

\* init_state, lines 26-39; nothing uploaded, nothing shown yet
SessionInit ==
    /\ selected_dataset = None
    /\ current_index = 0
    /\ selected_class = "Unlabeled"
    /\ annotations_dict = NoDict
    /\ annotation_json = [valid |-> TRUE, value |-> EmptySet]
    /\ last_export_path = <<>>
    /\ uploaded = None
    /\ message = "none"

CanvasIdle ==
    /\ mode = "rect"
    /\ annotations = EmptySet
    /\ rects = <<>>
    /\ polys = <<>>
    /\ curPoly = <<>>
    /\ start = <<>>
    /\ isDrag = FALSE
    /\ event = NoEvent

CallIdle ==
    /\ img_path = DEFAULT_IMG
    /\ data = EmptySet
    /\ fault = "ok"
    /\ pc = "idle"
    /\ coco_format = NoRecord

----------------------------------------------------------------------------
(* SpecExport: one call of save_annotation.                                *)

\* the drag of the spec's scenario, and the quadrilateral of its area example
ExampleRect == <<500, 300, -200, -100>>
ExamplePolygon == <<<<0, 0>>, <<4, 0>>, <<4, 3>>, <<0, 3>>>>

\* shapes for the sets that vary the lists: two rectangles, one of them of
\* three numbers; a quadrilateral, a triangle and a polygon of two vertices
SampleRects == {ExampleRect, <<0, 1, 2, 0>>, <<1, 2, 3>>}
SamplePolys == {ExamplePolygon, <<<<1, 5>>, <<4, 1>>, <<2, 8>>>>, <<<<0, 0>>, <<2, 1>>>>}

RawRects ==
    {<<x, y, w, h>> : x \in 0..MaxCoord, y \in 0..MaxCoord,
                      w \in -MaxCoord..MaxCoord, h \in -MaxCoord..MaxCoord}

PolyCoords == {0, 1, 3}
Polygons == SeqsUpTo(PolyCoords \X PolyCoords, MaxVertices)

\* The lists vary with every class and every behaviour of the disk; one shape
\* varies over all raw rectangles or all polygons, with one class and a sound disk.
ExportInputs ==
    {[rects |-> rs, polys |-> ps] :
        rs \in SeqsUpTo(SampleRects, MaxShapes), ps \in SeqsUpTo(SamplePolys, MaxShapes)}

OneShapeInputs ==
    {[rects |-> <<r>>, polys |-> <<>>] : r \in RawRects \cup {ExampleRect}}
    \cup {[rects |-> <<>>, polys |-> <<p>>] : p \in Polygons \cup {ExamplePolygon}}

ExportCases ==
    ({class_options[i] : i \in 1..Len(class_options)} \X ExportInputs \X IOOutcomes)
    \cup ({"Car"} \X OneShapeInputs \X {"ok"})

ExportImage == [dir |-> "xview_sample", stem |-> "a", suffix |-> ".jpg"]

ExportInit ==
    /\ selected_dataset = "xview_sample"
    /\ current_index = 0
    /\ \E c \in ExportCases :
          /\ selected_class = c[1]
          /\ data = c[2]
          /\ fault = c[3]
    /\ annotations_dict = NoDict
    /\ annotation_json = [valid |-> TRUE, value |-> EmptySet]
    /\ last_export_path = <<>>
    /\ uploaded = None
    /\ message = "none"
    /\ image_files = [d \in {} |-> {}]
    /\ annotation_files = NoFiles
    /\ CanvasIdle
    /\ img_path = ExportImage
    /\ pc = "call"
    /\ coco_format = NoRecord

CallSaveAnnotation ==
    /\ pc = "call"
    /\ LET r == save_annotation(img_path, data, fault)
       IN  /\ annotation_files' = r.files
           /\ last_export_path' = r.last
           /\ pc' = IF r.raised THEN "raised" ELSE "returned"
           /\ coco_format' = IF Raises(data) THEN NoRecord ELSE build_coco(img_path, data)
    /\ UNCHANGED <<selected_dataset, current_index, selected_class, annotations_dict,
                   annotation_json, uploaded, message, image_files, canvas_vars,
                   img_path, data, fault>>

ExportNext == CallSaveAnnotation

SpecExport == ExportInit /\ [][ExportNext]_vars

----------------------------------------------------------------------------
(* SpecCanvas: the script of canvas_html, lines 209-283, on one rendered   *)
(* page. mode, and the rects and polys the page starts with, are what the  *)
(* script run wrote into the page (lines 214-216). The browser's events    *)
(* are taken in any order.                                                 *)

\* where the mouse is when an event fires
ClickPoints == {<<0, 0>>, <<2, 1>>}

\* sets the session can hold for the image shown: the empty one, one with two
\* rectangles and a triangle, one with a polygon of two vertices
LoadedSets ==
    {EmptySet,
     [rects |-> <<<<0, 0, 2, 1>>, <<2, 1, -2, -1>>>>,
      polys |-> <<<<<<0, 0>>, <<2, 1>>, <<2, 0>>>>>>],
     [rects |-> <<>>, polys |-> <<<<<<0, 0>>, <<2, 1>>>>>>]}

CanvasInit ==
    /\ SessionInit
    /\ image_files = [d \in {} |-> {}]
    /\ annotation_files = NoFiles
    /\ CallIdle
    /\ mode \in {"rect", "polygon"}
    /\ annotations \in LoadedSets
    /\ rects = annotations.rects
    /\ polys = annotations.polys
    /\ curPoly = <<>>
    /\ start = <<>>
    /\ isDrag = FALSE
    /\ event = NoEvent

\* jsonData.value, which updateCoordsBox sets on every redrawAll
jsonData == [rects |-> rects, polys |-> polys]

Fired(type, at) == [type |-> type, offsetX |-> at[1], offsetY |-> at[2]]

\* the listeners touch nothing but the script's variables
CanvasFrame == UNCHANGED <<mode, annotations, session_vars, disk_vars, call_vars>>

dblclick_commits_two(n) == n > 1

\* line 277: curPoly.length > 2
dblclick_commits(n) == n > 2

mouseup_appends(rs, r) == Append(rs, r)

\* line 270: rects = [[...]]
mouseup_rects(rs, r) == <<r>>

mousedown(at) ==
    /\ CanvasFrame
    /\ event' = Fired("mousedown", at)
    /\ IF mode = "rect"
       THEN /\ start' = at
            /\ isDrag' = TRUE
            /\ UNCHANGED curPoly
       ELSE /\ Len(curPoly) < MaxClicks
            /\ curPoly' = Append(curPoly, at)
            /\ UNCHANGED <<start, isDrag>>
    /\ UNCHANGED <<rects, polys>>

\* draws only: redrawAll and the rubber band
mousemove(at) ==
    /\ CanvasFrame
    /\ event' = Fired("mousemove", at)
    /\ UNCHANGED <<rects, polys, curPoly, start, isDrag>>

mouseup(at) ==
    /\ CanvasFrame
    /\ event' = Fired("mouseup", at)
    /\ IF mode = "rect" /\ isDrag
       THEN /\ rects' = mouseup_rects(rects, <<start[1], start[2],
                                               at[1] - start[1], at[2] - start[2]>>)
            /\ isDrag' = FALSE
       ELSE UNCHANGED <<rects, isDrag>>
    /\ UNCHANGED <<polys, curPoly, start>>

dblclick(at) ==
    /\ CanvasFrame
    /\ event' = Fired("dblclick", at)
    /\ IF mode = "polygon" /\ dblclick_commits(Len(curPoly))
       THEN /\ Len(polys) < Len(annotations.polys) + MaxCommitted
            /\ polys' = Append(polys, curPoly)
            /\ curPoly' = <<>>
       ELSE UNCHANGED <<polys, curPoly>>
    /\ UNCHANGED <<rects, start, isDrag>>

CanvasNext ==
    \/ \E at \in ClickPoints : mousedown(at)
    \/ \E at \in ClickPoints : mousemove(at)
    \/ \E at \in ClickPoints : mouseup(at)
    \/ \E at \in ClickPoints : dblclick(at)

SpecCanvas == CanvasInit /\ [][CanvasNext]_vars

----------------------------------------------------------------------------
(* The Streamlit session. Every widget interaction runs the script from    *)
(* the top; an action is that run, and the rerun st.rerun() asks for.      *)

\* the patterns of lines 141-152, in their order
glob_suffixes ==
    <<".jpg", ".JPG", ".jpeg", ".JPEG", ".png", ".PNG",
      ".tif", ".TIF", ".tiff", ".TIFF", ".bmp", ".BMP">>

\* the stems of the files on the disk, in sorted()'s order
Stems == <<"a", "b", "default">>

File(stem, suffix) == [stem |-> stem, suffix |-> suffix]
PathOf(dir, f) == [dir |-> dir, stem |-> f.stem, suffix |-> f.suffix]

\* sorted(dir.glob("*" + suffix))
sorted_glob(imgs, dir, suffix) ==
    IF \A f \in imgs[dir] : f.suffix # suffix THEN <<>>
    ELSE LET present == SelectSeq(Stems, LAMBDA st : File(st, suffix) \in imgs[dir])
         IN  [i \in 1..Len(present) |-> PathOf(dir, File(present[i], suffix))]

RECURSIVE glob_from(_, _, _)
glob_from(imgs, dir, k) ==
    IF k > Len(glob_suffixes) THEN <<>>
    ELSE sorted_glob(imgs, dir, glob_suffixes[k]) \o glob_from(imgs, dir, k + 1)

\* images, lines 140-153
images_of(imgs, dir) == glob_from(imgs, dir, 1)

Max2(a, b) == IF a >= b THEN a ELSE b
Min2(a, b) == IF a <= b THEN a ELSE b

json_dumps(v) == [valid |-> TRUE, value |-> v]

\* The script from its top to line 177, from session state (ds, idx, dict), the
\* disk (imgs) and the file uploader's content (upl): the upload block, the
\* image list and the clamp, the stop when the image to show is missing, the
\* image's entry in annotations_dict.
RunTop(ds, idx, dict, imgs, upl) ==
    LET has_upload == upl # <<>>
        ds1 == IF has_upload THEN UPLOAD_DIR ELSE ds
        idx1 == IF has_upload THEN 0 ELSE idx
        imgs1 == IF has_upload
                 THEN [imgs EXCEPT ![UPLOAD_DIR] = @ \cup {upl[1]}]
                 ELSE imgs
        images == IF ds1 = None THEN <<>> ELSE images_of(imgs1, ds1)
        idx2 == IF images # <<>> THEN Max2(0, Min2(idx1, Len(images) - 1)) ELSE idx1
        bg_path == IF images # <<>> THEN images[idx2 + 1] ELSE DEFAULT_IMG
        stopped == /\ bg_path = DEFAULT_IMG
                   /\ File(DEFAULT_IMG.stem, DEFAULT_IMG.suffix) \notin imgs1["."]
        dict1 == IF stopped \/ bg_path \in DOMAIN dict THEN dict
                 ELSE [k \in (DOMAIN dict) \cup {bg_path} |->
                          IF k = bg_path THEN EmptySet ELSE dict[k]]
    IN  [ds |-> ds1, idx |-> idx2, dict |-> dict1, imgs |-> imgs1,
         images |-> images, bg_path |-> bg_path, stopped |-> stopped]

\* the run that produced the page now shown
Shown == RunTop(selected_dataset, current_index, annotations_dict, image_files, uploaded)

\* the widgets after st.stop() (line 171) are on the page
PageShown == ~Shown.stopped
\* the widgets after the next button (line 309) are on the page
SaveShown == PageShown /\ message # "exception"

\* a run's results go to the session and the disk
Becomes(r) ==
    /\ selected_dataset' = r.ds
    /\ current_index' = r.idx
    /\ annotations_dict' = r.dict
    /\ image_files' = r.imgs

SpecFrame == UNCHANGED <<annotations, rects, polys, curPoly, start, isDrag, event,
                         call_vars>>

\* lines 191-192, 291-292, 305-306
ClearedAt(dict, key) == [dict EXCEPT ![key] = EmptySet]

\* line 293
prev_index(idx, n) == Max2(0, idx - 1)
\* line 308
next_index(idx, n) == Min2(n - 1, idx + 1)

\* the names the user uploads, and the texts typed into the text area
UploadNames == {File("b", ".jpg")}

GoodSet == [rects |-> <<<<2, 1, -2, -1>>>>, polys |-> <<<<<<0, 0>>, <<2, 1>>, <<2, 0>>>>>>]
BadSet == [rects |-> <<<<1, 2, 3>>>>, polys |-> <<>>]
Garbage == [valid |-> FALSE, value |-> EmptySet]
Texts == {Garbage, json_dumps(EmptySet), json_dumps(GoodSet), json_dumps(BadSet)}

\* the classes the user picks in the selectbox
PickedClasses == {"Unlabeled", "Tree"}

\* The folders the script makes exist (lines 18-19) and what they hold: two
\* images of one stem in xview_sample, and default.jpg in the working
\* directory or not.
Disks ==
    {[d \in {".", UPLOAD_DIR, "xview_sample", "opensarship_sample", "mstar_sample"} |->
        IF d = "xview_sample" THEN {File("a", ".jpg"), File("a", ".png")}
        ELSE IF d = "." THEN dflt
        ELSE {}] : dflt \in {{}, {File("default", ".jpg")}}}

Init ==
    /\ image_files \in Disks
    /\ annotation_files = NoFiles
    /\ selected_class = "Unlabeled"
    /\ annotation_json = json_dumps(EmptySet)
    /\ last_export_path = <<>>
    /\ uploaded = <<>>
    /\ message = "none"
    /\ LET r == RunTop(None, 0, NoDict, image_files, <<>>)
       IN  /\ selected_dataset = r.ds
           /\ current_index = r.idx
           /\ annotations_dict = r.dict
    /\ CanvasIdle
    /\ CallIdle

\* lines 124-127: a dataset button of the sidebar
ClickDataset(ds) ==
    /\ Becomes(RunTop(ds, 0, annotations_dict, image_files, uploaded))
    /\ message' = "none"
    /\ UNCHANGED <<selected_class, annotation_json, last_export_path, uploaded,
                   annotation_files, mode>>
    /\ SpecFrame

\* lines 129-134: a file put into the uploader; it stays there for later runs
Upload(f) ==
    /\ uploaded' = <<f>>
    /\ Becomes(RunTop(selected_dataset, current_index, annotations_dict,
                      image_files, <<f>>))
    /\ message' = "none"
    /\ UNCHANGED <<selected_class, annotation_json, last_export_path,
                   annotation_files, mode>>
    /\ SpecFrame

\* the file taken out of the uploader
RemoveUpload ==
    /\ uploaded # <<>>
    /\ uploaded' = <<>>
    /\ Becomes(RunTop(selected_dataset, current_index, annotations_dict,
                      image_files, <<>>))
    /\ message' = "none"
    /\ UNCHANGED <<selected_class, annotation_json, last_export_path,
                   annotation_files, mode>>
    /\ SpecFrame

\* lines 180-182: the selectbox, whose key is selected_class
SelectClass(c) ==
    /\ PageShown
    /\ c # selected_class
    /\ selected_class' = c
    /\ Becomes(Shown)
    /\ message' = "none"
    /\ UNCHANGED <<annotation_json, last_export_path, uploaded, annotation_files, mode>>
    /\ SpecFrame

\* lines 186-189: the Rectangular and Polygonal buttons
ClickMode(m) ==
    /\ PageShown
    /\ mode' = m
    /\ Becomes(Shown)
    /\ message' = "none"
    /\ UNCHANGED <<selected_class, annotation_json, last_export_path, uploaded,
                   annotation_files>>
    /\ SpecFrame

\* lines 190-194: Reset Annotations, then the rerun
ClickReset ==
    /\ PageShown
    /\ LET r == Shown
       IN  Becomes(RunTop(r.ds, r.idx, ClearedAt(r.dict, r.bg_path), r.imgs, uploaded))
    /\ annotation_json' = json_dumps(EmptySet)
    /\ message' = "none"
    /\ UNCHANGED <<selected_class, last_export_path, uploaded, annotation_files, mode>>
    /\ SpecFrame

\* lines 290-294: the previous button, then the rerun
ClickPrev ==
    /\ PageShown
    /\ LET r == Shown
       IN  Becomes(RunTop(r.ds, prev_index(r.idx, Len(r.images)),
                          ClearedAt(r.dict, r.bg_path), r.imgs, uploaded))
    /\ annotation_json' = json_dumps(EmptySet)
    /\ message' = "none"
    /\ UNCHANGED <<selected_class, last_export_path, uploaded, annotation_files, mode>>
    /\ SpecFrame

\* lines 304-309: the next button, then the rerun. With no dataset selected
\* images is not defined: line 308 raises NameError after lines 305-307, the
\* run ends there, and nothing below the button is shown.
ClickNext ==
    /\ PageShown
    /\ LET r == Shown
       IN  IF r.ds = None
           THEN /\ Becomes([r EXCEPT !.dict = ClearedAt(r.dict, r.bg_path)])
                /\ message' = "exception"
           ELSE /\ Becomes(RunTop(r.ds, next_index(r.idx, Len(r.images)),
                                  ClearedAt(r.dict, r.bg_path), r.imgs, uploaded))
                /\ message' = "none"
    /\ annotation_json' = json_dumps(EmptySet)
    /\ UNCHANGED <<selected_class, last_export_path, uploaded, annotation_files, mode>>
    /\ SpecFrame

\* lines 312-318: the text area, whose key is annotation_json, edited by hand
EditText(t) ==
    /\ SaveShown
    /\ t # annotation_json
    /\ annotation_json' = t
    /\ Becomes(Shown)
    /\ message' = "none"
    /\ UNCHANGED <<selected_class, last_export_path, uploaded, annotation_files, mode>>
    /\ SpecFrame

stored_after_export(dict, key, value) == dict

\* line 323: annotations_dict[img_key] = data
stored_on_save(dict, key, value) == [dict EXCEPT ![key] = value]

\* lines 320-327: Save Annotations from Canvas. json.loads raises on a text
\* that is no JSON; the parsed data is stored before save_annotation is called.
ClickSave(io) ==
    /\ SaveShown
    /\ LET r == Shown
       IN  IF ~annotation_json.valid
           THEN /\ Becomes(r)
                /\ message' = "error"
                /\ UNCHANGED <<annotation_files, last_export_path>>
           ELSE LET saved == save_annotation(r.bg_path, annotation_json.value, io)
                IN  /\ Becomes([r EXCEPT !.dict = stored_on_save(r.dict, r.bg_path,
                                                                  annotation_json.value)])
                    /\ annotation_files' = saved.files
                    /\ last_export_path' = saved.last
                    /\ message' = IF saved.raised THEN "error" ELSE "success"
    /\ UNCHANGED <<selected_class, annotation_json, uploaded, mode>>
    /\ SpecFrame

\* SpecNavigate: from the first run, the widgets that choose what is shown
\* and that clear the set of the image shown.
NavigateNext ==
    \/ \E i \in 1..Len(DATASET_DIRS) : ClickDataset(DATASET_DIRS[i])
    \/ \E f \in UploadNames : Upload(f)
    \/ RemoveUpload
    \/ \E c \in PickedClasses : SelectClass(c)
    \/ \E m \in {"rect", "polygon"} : ClickMode(m)
    \/ ClickReset
    \/ ClickPrev
    \/ ClickNext

SpecNavigate == Init /\ [][NavigateNext]_vars

\* SpecSave: from the run after the first click on the xview_sample button,
\* the widgets that change, clear and export the sets, with the class left as
\* it is.
SaveInit ==
    /\ image_files \in Disks
    /\ annotation_files = NoFiles
    /\ selected_class = "Unlabeled"
    /\ annotation_json = json_dumps(EmptySet)
    /\ last_export_path = <<>>
    /\ uploaded = <<>>
    /\ message = "none"
    /\ LET r0 == RunTop(None, 0, NoDict, image_files, <<>>)
           r1 == RunTop("xview_sample", 0, r0.dict, image_files, <<>>)
       IN  /\ selected_dataset = r1.ds
           /\ current_index = r1.idx
           /\ annotations_dict = r1.dict
    /\ CanvasIdle
    /\ CallIdle

\* the dataset buttons clicked while saving: one folder with images, one without
SaveDatasets == {"xview_sample", "opensarship_sample"}

SaveNext ==
    \/ \E ds \in SaveDatasets : ClickDataset(ds)
    \/ ClickReset
    \/ ClickPrev
    \/ ClickNext
    \/ \E t \in Texts : EditText(t)
    \/ \E io \in IOOutcomes : ClickSave(io)

SpecSave == SaveInit /\ [][SaveNext]_vars

----------------------------------------------------------------------------
(* Claims about save_annotation, under SpecExport.                         *)

Corners(b) ==
    {<<b[1], b[2]>>, <<b[1] + b[3], b[2]>>, <<b[1], b[2] + b[4]>>,
     <<b[1] + b[3], b[2] + b[4]>>}

\* an Annotation Set of the data model: rectangles of four numbers, polygons of
\* at least three vertices of two numbers
WellFormed(d) ==
    /\ \A i \in 1..Len(d.rects) : Len(d.rects[i]) = 4
    /\ \A j \in 1..Len(d.polys) :
          /\ Len(d.polys[j]) >= 3
          /\ \A k \in 1..Len(d.polys[j]) : Len(d.polys[j][k]) = 2

Rotated(p, k) == [i \in 1..Len(p) |-> p[((i + k - 1) % Len(p)) + 1]]
Reversed(p) == [i \in 1..Len(p) |-> p[Len(p) + 1 - i]]

\* C1: for a well-formed Annotation Set (the empty one included) and a sound
\* disk, save_annotation returns without an error, and its record has
\* len(R)+len(P) annotations, with ids 1..n in list order, the rectangles in
\* their order before the polygons in theirs, and every category_id the 1-based
\* position of the selected class in class_options.
C1_IdsCountAndCategory ==
    (pc \in {"returned", "raised"} /\ WellFormed(data) /\ fault = "ok") =>
        LET anns == coco_format.annotations
            R == data.rects
            P == data.polys
        IN  /\ pc = "returned"
            /\ annotation_files[get_annotation_path(img_path)].coco = coco_format
            /\ Len(anns) = Len(R) + Len(P)
            /\ \A i \in 1..Len(anns) :
                  /\ anns[i].id = i
                  /\ anns[i].category_id \in 1..Len(class_options)
                  /\ class_options[anns[i].category_id] = selected_class
            /\ \A i \in 1..Len(R) :
                  /\ anns[i].segmentation = <<>>
                  /\ Corners(anns[i].bbox) = Corners(R[i])
            /\ \A j \in 1..Len(P) : anns[Len(R) + j].segmentation = <<Flatten(P[j])>>
            /\ (data = EmptySet => anns = <<>>)

C1_Witness ==
    /\ pc = "returned"
    /\ Len(data.rects) = 2
    /\ Len(data.polys) = 2
    /\ data.rects[1] # data.rects[2]
    /\ data.polys[1] # data.polys[2]
    /\ selected_class = "Tank"
    /\ Len(coco_format.annotations) = 4
    /\ coco_format.annotations[4].id = 4

\* C2: every raw rectangle is exported with a width and a height >= 0, the
\* same four corners, and the area width * height; the drag (500,300,-200,-100)
\* is exported as [300,200,200,100] with area 20000.
C2_RectNormalized ==
    (pc = "returned") =>
        \A i \in 1..Len(data.rects) :
            LET a == coco_format.annotations[i]
            IN  /\ a.bbox[3] >= 0
                /\ a.bbox[4] >= 0
                /\ Corners(a.bbox) = Corners(data.rects[i])
                /\ a.area = a.bbox[3] * a.bbox[4]
                /\ (data.rects[i] = ExampleRect =>
                        a.bbox = <<300, 200, 200, 100>> /\ a.area = 20000)

C2_Witness ==
    /\ pc = "returned"
    /\ data.rects = <<ExampleRect>>
    /\ coco_format.annotations[1].bbox = <<300, 200, 200, 100>>
    /\ coco_format.annotations[1].area = 20000

\* C3 (the claim as stated, on a sound disk): when the set holds a polygon of
\* exactly two vertices, the export raises, and no file is written.
C3_TwoVertexRejected ==
    (pc \in {"returned", "raised"} /\ fault = "ok"
        /\ \E j \in 1..Len(data.polys) : Len(data.polys[j]) = 2) =>
        /\ pc = "raised"
        /\ annotation_files = NoFiles

\* C6: the area exported for a polygon of at least three vertices is the area
\* of every cyclic shift of its vertex list and of the reversed list; the
\* area of [[0,0],[4,0],[4,3],[0,3]] is 12.
C6_AreaShiftAndReversal ==
    (pc = "returned") =>
        \A j \in 1..Len(data.polys) :
            LET p == data.polys[j]
                a == coco_format.annotations[Len(data.rects) + j].area
            IN  Len(p) >= 3 =>
                    /\ \A k \in 0..(Len(p) - 1) : polygon_area(Rotated(p, k)) = a
                    /\ polygon_area(Reversed(p)) = a
                    /\ (p = ExamplePolygon => a = <<12, 0>>)

C6_Witness ==
    /\ pc = "returned"
    /\ data.polys = <<ExamplePolygon>>
    /\ coco_format.annotations[1].area = <<12, 0>>
    /\ polygon_area(Reversed(ExamplePolygon)) = <<12, 0>>

----------------------------------------------------------------------------
(* Claims about the canvas, under SpecCanvas.                              *)

AtLeastThree(ps) == \A i \in 1..Len(ps) : Len(ps[i]) >= 3

C10_DragReplacesRects ==
    [][/\ (event'.type = "mousedown" /\ mode = "rect") =>
             /\ start' = <<event'.offsetX, event'.offsetY>>
             /\ isDrag'
             /\ UNCHANGED <<rects, polys>>
       /\ (event'.type = "mouseup" /\ mode = "rect" /\ isDrag) =>
             /\ rects' = <<<<start[1], start[2],
                             event'.offsetX - start[1], event'.offsetY - start[2]>>>>
             /\ polys' = polys
             /\ ~isDrag'
       /\ (event'.type = "mouseup" /\ ~(mode = "rect" /\ isDrag)) =>
             UNCHANGED <<rects, polys, curPoly, start, isDrag>>
       /\ (event'.type = "mousemove") =>
             UNCHANGED <<rects, polys, curPoly, start, isDrag>>]_vars

C10_Witness ==
    /\ mode = "rect"
    /\ event.type = "mouseup"
    /\ Len(annotations.rects) = 2
    /\ start = <<2, 1>>
    /\ rects = <<<<2, 1, -2, -1>>>>
    /\ polys = annotations.polys
    /\ ~isDrag

----------------------------------------------------------------------------
(* Claims about the session, under SpecNavigate and SpecSave.              *)

\* C4 (the claim as stated): a save that reports an error leaves the files
\* under annotations/ as they were: no file is truncated, none is created.
C4_FailedSaveLeavesFiles ==
    [][message' = "error" => annotation_files' = annotation_files]_vars

\* C5 (the claim as stated): a click on Save Annotations from Canvas, whether
\* the export succeeds or fails, leaves annotations_dict as it was, for the
\* image shown and for every other image.
C5_SaveKeepsAnnotationSets ==
    [][message' \in {"success", "error"} => annotations_dict' = annotations_dict]_vars

\* C5 (amended): a click on Save Annotations from Canvas whose text area holds
\* JSON makes that JSON the set of the image shown, whether the export then
\* succeeds or fails, and keeps it there (the export clears nothing); a click
\* whose text is no JSON changes no set; the sets of all other images stay.
C5_SaveStoresTextArea ==
    [][message' \in {"success", "error"} =>
          /\ DOMAIN annotations_dict' = DOMAIN annotations_dict
          /\ \A k \in DOMAIN annotations_dict :
                annotations_dict'[k] =
                    IF k = Shown.bg_path /\ annotation_json.valid
                    THEN annotation_json.value
                    ELSE annotations_dict[k]]_vars

C5_Witness ==
    /\ message = "error"
    /\ annotation_json = json_dumps(BadSet)
    /\ annotation_files = NoFiles
    /\ Shown.bg_path = DEFAULT_IMG
    /\ annotations_dict[DEFAULT_IMG] = BadSet
    /\ \E k \in DOMAIN annotations_dict : annotations_dict[k] = GoodSet

\* C7 (the claim as stated): exports of different images go to different
\* paths, so no export replaces the file written by the export of another image.
C7_ExportsKeepOtherFiles ==
    [][\A p \in DOMAIN annotation_files :
          (annotation_files[p].complete /\ annotation_files'[p].complete) =>
              annotation_files'[p].coco.images = annotation_files[p].coco.images]_vars

\* C9 (the claim as stated): current_index is never negative, and is at most
\* len(images) - 1 whenever the selected dataset has an image.
C9_IndexInRange ==
    /\ current_index >= 0
    /\ (selected_dataset # None /\ images_of(image_files, selected_dataset) # <<>>) =>
          current_index <= Len(images_of(image_files, selected_dataset)) - 1

====
